---- MODULE Spec2Model ----
(***************************************************************************)
(* A model of mpod_control (src/mpod_control.py): the channel registry     *)
(* built by from_json or by assigning _channel objects, and the commands   *)
(* status, configure, enable, disable, print_crate_properties and          *)
(* print_outputNames, which drive a Wiener MPOD crate through the net-snmp *)
(* programs.                                                               *)
(*                                                                         *)
(* What a command does is observed in `trace`: the lines it prints and the *)
(* processes it runs, in program order.  Each command is one action: the   *)
(* code is single-threaded and blocking.  A process the code runs may end  *)
(* with a non-zero exit status; which one does is the environment's        *)
(* choice (failAt), and so is the text a successful process writes         *)
(* (reply).                                                                *)
(*                                                                         *)
(* Python values are tagged records: None, int, float (kept in tenths, so  *)
(* float(55) is 5.5) and tuple.  Absent marks a JSON key that is missing   *)
(* or a keyword argument that is not given.  Text the code only passes on  *)
(* is a TLA+ string; text the code takes apart (the output of snmpget) is  *)
(* a sequence of one-character strings.                                    *)
(***************************************************************************)
EXTENDS Integers, Sequences, FiniteSets, TLC

VARIABLES
    self,      \* the mpod_control object
    config,    \* what the registry was built from: the call and the channel definitions
    pc,        \* "new": constructed, no channels yet; "loaded"; "failed": construction raised
    command,   \* the last command called and its arguments
    trace,     \* what the last command printed and ran, in order
    raised,    \* the exception that left the last call, or "none"
    returned   \* the value the last call returned

vars == <<self, config, pc, command, trace, raised, returned>>

---------------------------------------------------------------------------
(* Bounds of the model. *)

\* the most channels a registry holds
MaxChannels == 2

\* the latest process of a command that may be the one to fail (0: none fails)
MaxFailAt == 26

---------------------------------------------------------------------------
(* Python values. *)

None == [tag |-> "None"]

Absent == [tag |-> "absent"]

int(n) == [tag |-> "int", val |-> n]

float(tenths) == [tag |-> "float", val |-> tenths]

tuple(items) == [tag |-> "tuple", items |-> items]

\* a Python string, as an argument that may also be None
pystr(s) == [tag |-> "str", val |-> s]

IsNone(v) == v.tag = "None"

\* a sequence in the other order
Reverse(s) == [i \in 1..Len(s) |-> s[Len(s) + 1 - i]]

\* str(v) of a number: "5.5" for the float 5.5, "2.0" for 2.0, "-1" for the int -1
str(v) ==
    IF v.tag = "None" THEN "None"
    ELSE IF v.tag = "int" THEN ToString(v.val)
    ELSE IF v.val >= 0
         THEN ToString(v.val \div 10) \o "." \o ToString(v.val % 10)
         ELSE "-" \o ToString((0 - v.val) \div 10) \o "." \o ToString((0 - v.val) % 10)

\* dict.get(key, None): a missing key reads as None
get(v) == IF v.tag = "absent" THEN None ELSE v

---------------------------------------------------------------------------
(* Text as characters. *)

Whitespace == {" ", "\t", "\n", "\r"}

RECURSIVE lstrip(_)
lstrip(t) ==
    IF t = <<>> THEN t
    ELSE IF Head(t) \in Whitespace THEN lstrip(Tail(t)) ELSE t

\* str.strip()
strip(t) == Reverse(lstrip(Reverse(lstrip(t))))

\* the index of the last ":" of t, 0 when it has none
LastColon(t) ==
    LET at == {i \in 1..Len(t) : t[i] = ":"}
    IN  IF at = {} THEN 0 ELSE CHOOSE i \in at : \A j \in at : j <= i

\* trim_snmpget_output that keeps what follows the first colon
trim_after_first_colon(out) ==
    LET at == {i \in 1..Len(out) : out[i] = ":"}
        first == IF at = {} THEN 0 ELSE CHOOSE i \in at : \A j \in at : i <= j
    IN  strip(SubSeq(out, first + 1, Len(out)))

\* out.split(':')[-1].strip()
trim_snmpget_output(out) == strip(SubSeq(out, LastColon(out) + 1, Len(out)))

\* the text _snmp_cmd returns in a dry run: 'did not run'
DidNotRun == <<"d", "i", "d", " ", "n", "o", "t", " ", "r", "u", "n">>

\* texts a process may write: "F: 1.5 V" with a newline, "ok"
Replies ==
    { <<"F", ":", " ", "1", ".", "5", " ", "V", "\n">>,
      <<"o", "k">> }

---------------------------------------------------------------------------
(* Channel definitions. *)

\* one channel of a configuration: the fields of a JSON channel object, or the
\* keyword arguments given to _channel
ChanDef(mpod_name, voltage, current, sense_rails, rise_rate, fall_rate) ==
    [mpod_name |-> mpod_name, voltage |-> voltage, current |-> current,
     sense_rails |-> sense_rails, rise_rate |-> rise_rate, fall_rate |-> fall_rate]

\* the channel definitions registries are built from
ChanDefs ==
    { ChanDef("u0", float(55), float(20), Absent, Absent, Absent),
      ChanDef("u1", float(55), float(20), Absent, Absent, Absent),
      ChanDef("u0", float(55), float(20), tuple(<<float(50), float(60)>>), float(1), float(1)),
      ChanDef("u1", int(180), float(20), tuple(<<float(60), float(50)>>), int(0), int(-1)),
      ChanDef("u1", float(55), float(20), None, Absent, Absent),
      ChanDef("u0", float(55), Absent, Absent, Absent, Absent) }

\* the logical names of a registry's channels, in the order they are inserted
LogicalNames == <<"A", "B", "C", "D">>

DeviceNames == {"u0", "u1"}

RECURSIVE SeqsUpTo(_, _)
\* the sequences of at most n elements of S
SeqsUpTo(S, n) ==
    IF n = 0 THEN {<<>>}
    ELSE LET shorter == SeqsUpTo(S, n - 1)
         IN  shorter \cup {Append(s, x) : s \in shorter, x \in S}

\* the "channels" objects of the configuration documents: name -> definition, in order
ChannelDocs ==
    { [i \in 1..Len(defs) |-> [name |-> LogicalNames[i], chan |-> defs[i]]] :
        defs \in SeqsUpTo(ChanDefs, MaxChannels) \ {<<>>} }

\* _channel(...): the dataclass with its defaults; a required field not given is
\* a TypeError
_channel(given) ==
    [mpod_name   |-> given.mpod_name,
     voltage     |-> given.voltage,
     current     |-> given.current,
     rise_rate   |-> IF given.rise_rate.tag = "absent" THEN int(-1) ELSE given.rise_rate,
     fall_rate   |-> IF given.fall_rate.tag = "absent" THEN int(1) ELSE given.fall_rate,
     sense_rails |-> IF given.sense_rails.tag = "absent" THEN tuple(<<>>) ELSE given.sense_rails]

\* a required field (voltage, current) is not there
MissingRequired(given) == given.voltage.tag = "absent" \/ given.current.tag = "absent"

---------------------------------------------------------------------------
(* The object. *)

\* mpod_control.__init__, with the environment's defaults
__init__(dry_run, mibs_dir) ==
    [ip_address_crate |-> "192.168.10.50",
     net_snmp_install |-> "/u1/ldmx/net-snmp-5.9.4/install",
     mibs_dir         |-> mibs_dir,
     module_type      |-> None,
     dry_run          |-> dry_run,
     voltage_range    |-> None,
     channels         |-> <<>>]

\* the channels from_json builds of a document's "channels": every optional
\* field is passed on, a missing one as None
from_json_channels(doc) ==
    [i \in 1..Len(doc) |->
        [name |-> doc[i].name,
         chan |-> _channel(
                    ChanDef(doc[i].chan.mpod_name, doc[i].chan.voltage, doc[i].chan.current,
                            get(doc[i].chan.sense_rails), get(doc[i].chan.rise_rate),
                            get(doc[i].chan.fall_rate)))]]

\* the channels of a registry whose channels are _channel objects built from
\* the keyword arguments given
direct_channels(doc) ==
    [i \in 1..Len(doc) |-> [name |-> doc[i].name, chan |-> _channel(doc[i].chan)]]

---------------------------------------------------------------------------
(* The transport.  An io record is the state of one call as it runs: the   *)
(* trace so far (a call of _snmp_cmd is an event with the text returned),  *)
(* the exception being raised (every statement after a raise is skipped:   *)
(* no handler of the class catches), the processes run so far,             *)
(* and the environment's choices.                                          *)

Event(ev, argv, rc, val) == [ev |-> ev, argv |-> argv, rc |-> rc, val |-> val]

StartIO(failAt, reply) ==
    [trace |-> <<>>, raised |-> "none", nrun |-> 0, failAt |-> failAt, reply |-> reply,
     ret |-> None]

\* print(text)
print_line(io, text) ==
    IF io.raised # "none" THEN io
    ELSE [io EXCEPT !.trace = Append(@, Event("print", <<text>>, 0, <<>>))]

\* print(json.dumps(value, indent=2))
print_json(io, value) ==
    IF io.raised # "none" THEN io
    ELSE [io EXCEPT !.trace = Append(@, Event("print_json", <<>>, 0, value))]

\* raise exc
raise(io, exc) == IF io.raised # "none" THEN io ELSE [io EXCEPT !.raised = exc]

\* the argument vector _snmp_cmd builds
snmp_argv(obj, cmd, args) ==
    <<obj.net_snmp_install \o "/bin/snmp" \o cmd, "-v", "2c">>
    \o (IF IsNone(obj.mibs_dir) THEN <<>> ELSE <<"-M", obj.mibs_dir.val>>)
    \o <<"-m", "+WIENER-CRATE-MIB">>
    \o <<"-c", IF cmd = "set" THEN "guru" ELSE "public">>
    \o <<obj.ip_address_crate>>
    \o args

\* _snmp_cmd that prints the command in a dry run and then runs it all the same
_snmp_cmd_print_and_run(obj, io, cmd, args) ==
    IF io.raised # "none" THEN io
    ELSE LET shown == IF obj.dry_run
                      THEN [io EXCEPT !.trace = Append(@, Event("print_cmd",
                                                  snmp_argv(obj, cmd, args), 0, DidNotRun))]
                      ELSE io
             n  == io.nrun + 1
             rc == IF n = io.failAt THEN 1 ELSE 0
             out == IF rc = 0 THEN strip(io.reply) ELSE <<>>
         IN  [shown EXCEPT !.trace = Append(@, Event("run", snmp_argv(obj, cmd, args), rc, out)),
                           !.nrun = n,
                           !.raised = IF rc = 0 THEN "none" ELSE "CalledProcessError",
                           !.ret = IF rc = 0 THEN strip(io.reply) ELSE None]

\* _snmp_cmd(cmd, *args): print the command in a dry run, else run it, raise
\* CalledProcessError on a non-zero exit status and return its stripped output
_snmp_cmd(obj, io, cmd, args) ==
    IF io.raised # "none" THEN io
    ELSE IF obj.dry_run
    THEN [io EXCEPT !.trace = Append(@, Event("print_cmd", snmp_argv(obj, cmd, args), 0, DidNotRun)),
                    !.ret = DidNotRun]
    ELSE LET n  == io.nrun + 1
             rc == IF n = io.failAt THEN 1 ELSE 0
             out == IF rc = 0 THEN strip(io.reply) ELSE <<>>
         IN  [io EXCEPT !.trace = Append(@, Event("run", snmp_argv(obj, cmd, args), rc, out)),
                        !.nrun = n,
                        !.raised = IF rc = 0 THEN "none" ELSE "CalledProcessError",
                        !.ret = IF rc = 0 THEN strip(io.reply) ELSE None]

snmpwalk_cmd(obj, io, args) == _snmp_cmd(obj, io, "walk", args)

snmpget_cmd(obj, io, args, raw) ==
    LET got == _snmp_cmd(obj, io, "get", args)
    IN  IF got.raised # "none" \/ raw THEN got
        ELSE [got EXCEPT !.ret = trim_snmpget_output(got.ret)]

snmpset_cmd(obj, io, args) == _snmp_cmd(obj, io, "set", args)

print_outputNames(obj, io) == snmpwalk_cmd(obj, io, <<"outputName">>)

---------------------------------------------------------------------------
(* The commands.  Each returns [io, val]: the call's state and its value.  *)

CrateParams ==
    <<"psSerialNumber", "fanAirTemperature", "fanNominalSpeed", "fanNumberOfFans", "fanSpeed">>

StatusParams ==
    <<"outputSwitch", "outputVoltage", "outputCurrent",
      "outputSupervisionMinSenseVoltage", "outputSupervisionMaxSenseVoltage",
      "outputVoltageRiseRate", "outputVoltageFallRate",
      "outputMeasurementTerminalVoltage", "outputMeasurementCurrent">>

RECURSIVE get_params(_, _, _, _, _, _)
\* { param: self.snmpget_cmd(param + suffix, raw = raw) for param in params[k..] }
get_params(obj, io, params, suffix, raw, k) ==
    IF k > Len(params) \/ io.raised # "none" THEN [io |-> io, val |-> <<>>]
    ELSE LET got  == snmpget_cmd(obj, io, <<params[k] \o suffix>>, raw)
             rest == get_params(obj, got, params, suffix, raw, k + 1)
         IN  [io  |-> rest.io,
              val |-> <<[key |-> params[k], value |-> got.ret]>> \o rest.val]

print_crate_properties(obj, io, raw) ==
    LET got == get_params(obj, io, CrateParams, "", raw, 1)
    IN  [io |-> print_json(got.io, got.val), val |-> None]

RECURSIVE status_channels_by_name(_, _, _, _, _)
\* status_channels with each GET addressed to the channel's logical name
status_channels_by_name(obj, io, channels, raw, i) ==
    IF i > Len(channels) \/ io.raised # "none" THEN [io |-> io, val |-> <<>>]
    ELSE LET got  == get_params(obj, io, StatusParams, "." \o channels[i].name, raw, 1)
             rest == status_channels_by_name(obj, got.io, channels, raw, i + 1)
         IN  [io  |-> rest.io,
              val |-> <<[key |-> channels[i].name, value |-> got.val]>> \o rest.val]

RECURSIVE status_channels(_, _, _, _, _)
\* { name: {...} for name, channel in channels[i..] }
status_channels(obj, io, channels, raw, i) ==
    IF i > Len(channels) \/ io.raised # "none" THEN [io |-> io, val |-> <<>>]
    ELSE LET got  == get_params(obj, io, StatusParams, "." \o channels[i].chan.mpod_name, raw, 1)
             rest == status_channels(obj, got.io, channels, raw, i + 1)
         IN  [io  |-> rest.io,
              val |-> <<[key |-> channels[i].name, value |-> got.val]>> \o rest.val]

\* self.channels[channel]: the channels of that logical name (none: a KeyError)
lookup(channels, channel) == SelectSeq(channels, LAMBDA c : c.name = channel.val)

status(obj, io, channel, raw) ==
    IF io.raised # "none" THEN [io |-> io, val |-> None]
    ELSE IF ~IsNone(channel) /\ lookup(obj.channels, channel) = <<>>
    THEN [io |-> raise(io, "KeyError"), val |-> None]
    ELSE LET channels == IF IsNone(channel) THEN obj.channels
                         ELSE lookup(obj.channels, channel)
             got == status_channels(obj, io, channels, raw, 1)
         IN  [io  |-> print_json(got.io, got.val),
              val |-> IF got.io.raised # "none" THEN None ELSE got.val]

\* the exception of v[i], "none" when v has an item i (counted from 0)
subscript_error(v, i) ==
    IF v.tag # "tuple" THEN "TypeError"
    ELSE IF i >= Len(v.items) THEN "IndexError" ELSE "none"

\* self.snmpset_cmd(name, "F", str(v[i]))
set_item(obj, io, name, v, i) ==
    IF io.raised # "none" THEN io
    ELSE IF subscript_error(v, i) # "none" THEN raise(io, subscript_error(v, i))
    ELSE snmpset_cmd(obj, io, <<name, "F", str(v.items[i + 1])>>)

\* rate is not None and rate > 0
rate_is_set(rate) == ~IsNone(rate) /\ rate.val > 0

\* configure, lines 263-265: the supervision bounds, when sense_rails is not None
configure_rails(obj, io, c) ==
    IF IsNone(c.chan.sense_rails) THEN io
    ELSE set_item(obj,
             set_item(obj, io, "outputSupervisionMinSenseVoltage." \o c.chan.mpod_name,
                      c.chan.sense_rails, 0),
             "outputSupervisionMaxSenseVoltage." \o c.chan.mpod_name, c.chan.sense_rails, 1)

\* configure, lines 267-268: the voltage, then the current limit
configure_output(obj, io, c) ==
    snmpset_cmd(obj,
        snmpset_cmd(obj, io, <<"outputVoltage." \o c.chan.mpod_name, "F", str(c.chan.voltage)>>),
        <<"outputCurrent." \o c.chan.mpod_name, "F", str(c.chan.current)>>)

\* configure, lines 270-273: the rise rate, then the fall rate, each when set
configure_rates(obj, io, c) ==
    LET risen == IF rate_is_set(c.chan.rise_rate)
                 THEN snmpset_cmd(obj, io, <<"outputVoltageRiseRate." \o c.chan.mpod_name,
                                             "F", str(c.chan.rise_rate)>>)
                 ELSE io
    IN  IF rate_is_set(c.chan.fall_rate)
        THEN snmpset_cmd(obj, risen, <<"outputVoltageFallRate." \o c.chan.mpod_name,
                                        "F", str(c.chan.fall_rate)>>)
        ELSE risen

\* configure_channel with the voltage and the current limit written before the
\* supervision bounds
configure_channel_voltage_first(obj, io, uchan, c) ==
    IF io.raised # "none" THEN io
    ELSE IF ~IsNone(uchan) /\ c.chan.mpod_name # uchan.val THEN io
    ELSE
    LET s0 == print_line(io, "configuring " \o c.name)
        s1 == configure_output(obj, s0, c)
        s2 == configure_rails(obj, s1, c)
        s3 == configure_rates(obj, s2, c)
    IN  status(obj, s3, pystr(c.name), FALSE).io

\* the body of configure's loop for the channel c
configure_channel(obj, io, uchan, c) ==
    IF io.raised # "none" THEN io
    ELSE IF ~IsNone(uchan) /\ c.chan.mpod_name # uchan.val THEN io
    ELSE
    LET s0 == print_line(io, "configuring " \o c.name)
        s1 == configure_rails(obj, s0, c)
        s2 == configure_output(obj, s1, c)
        s3 == configure_rates(obj, s2, c)
    IN  status(obj, s3, pystr(c.name), FALSE).io

RECURSIVE configure_from_continue(_, _, _, _)
\* configure's loop going on to the next channel after a channel has failed,
\* the failure raised once the loop is over
configure_from_continue(obj, io, uchan, i) ==
    IF i > Len(obj.channels) THEN io
    ELSE LET done == configure_channel(obj, [io EXCEPT !.raised = "none"], uchan, obj.channels[i])
         IN  configure_from_continue(obj,
                 IF io.raised # "none" THEN [done EXCEPT !.raised = io.raised] ELSE done,
                 uchan, i + 1)

RECURSIVE configure_from(_, _, _, _)
configure_from(obj, io, uchan, i) ==
    IF i > Len(obj.channels) THEN io
    ELSE configure_from(obj, configure_channel(obj, io, uchan, obj.channels[i]), uchan, i + 1)

configure(obj, io, uchan) == [io |-> configure_from(obj, io, uchan, 1), val |-> None]

\* the body of enable's second loop for the channel c
enable_channel(obj, io, uchan, c) ==
    IF io.raised # "none" THEN io
    ELSE IF ~IsNone(uchan) /\ c.chan.mpod_name # uchan.val THEN io
    ELSE snmpset_cmd(obj, print_line(io, "enabling " \o c.name),
                     <<"outputSwitch." \o c.chan.mpod_name, "i", "1">>)

RECURSIVE enable_from(_, _, _, _)
enable_from(obj, io, uchan, i) ==
    IF i > Len(obj.channels) THEN io
    ELSE enable_from(obj, enable_channel(obj, io, uchan, obj.channels[i]), uchan, i + 1)

RECURSIVE enable_each_from(_, _, _, _)
\* enable that configures and switches on one channel after the other
enable_each_from(obj, io, uchan, i) ==
    IF i > Len(obj.channels) THEN io
    ELSE enable_each_from(obj,
             enable_channel(obj, configure_channel(obj, io, uchan, obj.channels[i]),
                            uchan, obj.channels[i]),
             uchan, i + 1)

enable_each(obj, io, uchan) == [io |-> enable_each_from(obj, io, uchan, 1), val |-> None]

\* enable with the outputs switched on before they are configured
enable_switch_first(obj, io, uchan) ==
    [io |-> configure(obj, enable_from(obj, io, uchan, 1), uchan).io, val |-> None]

\* enable that switches the outputs on whatever became of configure
enable_after_failure(obj, io, uchan) ==
    LET configured == configure(obj, io, uchan).io
        failure == configured.raised
        switched == IF io.raised # "none" THEN io
                    ELSE enable_from(obj, [configured EXCEPT !.raised = "none"], uchan, 1)
    IN  [io  |-> IF failure # "none" /\ switched.raised = "none"
                 THEN [switched EXCEPT !.raised = failure] ELSE switched,
         val |-> None]

enable(obj, io, uchan) ==
    [io |-> enable_from(obj, configure(obj, io, uchan).io, uchan, 1), val |-> None]

\* disable_channel that reads the switch before it writes it
disable_channel_after_get(obj, io, uchan, c) ==
    IF io.raised # "none" THEN io
    ELSE IF ~IsNone(uchan) /\ c.chan.mpod_name # uchan.val THEN io
    ELSE snmpset_cmd(obj,
             snmpget_cmd(obj, print_line(io, "disabling " \o c.name),
                         <<"outputSwitch." \o c.chan.mpod_name>>, FALSE),
             <<"outputSwitch." \o c.chan.mpod_name \o " i 0">>)

\* the body of disable's loop for the channel c
disable_channel(obj, io, uchan, c) ==
    IF io.raised # "none" THEN io
    ELSE IF ~IsNone(uchan) /\ c.chan.mpod_name # uchan.val THEN io
    ELSE snmpset_cmd(obj, print_line(io, "disabling " \o c.name),
                     <<"outputSwitch." \o c.chan.mpod_name \o " i 0">>)

RECURSIVE disable_from(_, _, _, _, _)
\* the loop over reversed(self.channels.items())
disable_from(obj, io, uchan, channels, i) ==
    IF i > Len(channels) THEN io
    ELSE disable_from(obj, disable_channel(obj, io, uchan, channels[i]), uchan, channels, i + 1)

\* disable over the channels in registry order
disable_forward(obj, io, uchan) ==
    [io |-> disable_from(obj, io, uchan, obj.channels, 1), val |-> None]

disable(obj, io, uchan) ==
    [io |-> disable_from(obj, io, uchan, Reverse(obj.channels), 1), val |-> None]

---------------------------------------------------------------------------
(* The state machine. *)

\* the values of NET_SNMP_MIBS_DIR: not set, or a directory
MibsDirs == {None, pystr("/mibs")}

\* the selectors given to configure, enable and disable: none, a device
\* identifier of the crate, one no channel carries
UchanArgs == {None} \cup {pystr(d) : d \in DeviceNames \cup {"u9"}}

\* the selectors given to status: none, a logical name, a device identifier
ChannelArgs ==
    {None} \cup {pystr(self.channels[i].name) : i \in 1..Len(self.channels)}
           \cup {pystr(d) : d \in DeviceNames}

Call(name, arg, raw) == [name |-> name, arg |-> arg, raw |-> raw]

NoCall == Call("", None, FALSE)

Init ==
    /\ \E dry_run \in BOOLEAN, mibs_dir \in MibsDirs : self = __init__(dry_run, mibs_dir)
    /\ config = [by |-> "", doc |-> <<>>]
    /\ pc = "new"
    /\ command = NoCall
    /\ trace = <<>>
    /\ raised = "none"
    /\ returned = None

\* the state after a call that built the registry, or failed to
Built(name, doc, channels, exc) ==
    /\ config' = [by |-> name, doc |-> doc]
    /\ command' = Call(name, None, FALSE)
    /\ trace' = <<>>
    /\ returned' = None
    /\ raised' = exc
    /\ IF exc = "none"
       THEN /\ self' = [self EXCEPT !.module_type = pystr("LV"),
                                    !.voltage_range = pystr("8V"),
                                    !.channels = channels]
            /\ pc' = "loaded"
       ELSE /\ self' = self
            /\ pc' = "failed"

\* mpod_control.from_json(filepath, dry_run = ...): chan["voltage"] of a channel
\* that has none is a KeyError
FromJson ==
    /\ pc = "new"
    /\ \E doc \in ChannelDocs :
        Built("from_json", doc, from_json_channels(doc),
              IF \E i \in 1..Len(doc) : MissingRequired(doc[i].chan)
              THEN "KeyError" ELSE "none")

\* mc.channels[name] = _channel(...), for each channel of doc: a required
\* argument not given is a TypeError
AssignChannels ==
    /\ pc = "new"
    /\ \E doc \in ChannelDocs :
        Built("_channel", doc, direct_channels(doc),
              IF \E i \in 1..Len(doc) : MissingRequired(doc[i].chan)
              THEN "TypeError" ELSE "none")

\* the state after a command that ran to r = [io, val]
Returned(call, r) ==
    /\ pc' = "returned"
    /\ command' = call
    /\ trace' = r.io.trace
    /\ raised' = r.io.raised
    /\ returned' = IF r.io.raised # "none" THEN None ELSE r.val
    /\ UNCHANGED <<self, config>>

\* the texts the processes of one command may write (a dry run runs none)
Outputs == IF self.dry_run THEN {<<>>} ELSE Replies

\* which process of a command may fail, given its run r in which none fails:
\* none (0), or one of those it runs
Failures(r) == {n \in 0..MaxFailAt : n <= r.io.nrun}

Status ==
    /\ pc = "loaded"
    /\ \E channel \in ChannelArgs, raw \in BOOLEAN, reply \in Outputs :
         \E failAt \in Failures(status(self, StartIO(0, reply), channel, raw)) :
            Returned(Call("status", channel, raw),
                     status(self, StartIO(failAt, reply), channel, raw))

Configure ==
    /\ pc = "loaded"
    /\ \E uchan \in UchanArgs, reply \in Outputs :
         \E failAt \in Failures(configure(self, StartIO(0, reply), uchan)) :
            Returned(Call("configure", uchan, FALSE),
                     configure(self, StartIO(failAt, reply), uchan))

Enable ==
    /\ pc = "loaded"
    /\ \E uchan \in UchanArgs, reply \in Outputs :
         \E failAt \in Failures(enable(self, StartIO(0, reply), uchan)) :
            Returned(Call("enable", uchan, FALSE),
                     enable(self, StartIO(failAt, reply), uchan))

Disable ==
    /\ pc = "loaded"
    /\ \E uchan \in UchanArgs, reply \in Outputs :
         \E failAt \in Failures(disable(self, StartIO(0, reply), uchan)) :
            Returned(Call("disable", uchan, FALSE),
                     disable(self, StartIO(failAt, reply), uchan))

PrintCrateProperties ==
    /\ pc = "loaded"
    /\ \E raw \in BOOLEAN, reply \in Outputs :
         \E failAt \in Failures(print_crate_properties(self, StartIO(0, reply), raw)) :
            Returned(Call("print_crate_properties", None, raw),
                     print_crate_properties(self, StartIO(failAt, reply), raw))

PrintOutputNames ==
    /\ pc = "loaded"
    /\ \E reply \in Outputs, failAt \in 0..1 :
         LET io == print_outputNames(self, StartIO(failAt, reply))
         IN  Returned(Call("print_outputNames", None, FALSE), [io |-> io, val |-> io.ret])

\* the caller has seen the outcome of a command and calls the next one
NextCall ==
    /\ pc = "returned"
    /\ pc' = "loaded"
    /\ command' = NoCall
    /\ trace' = <<>>
    /\ raised' = "none"
    /\ returned' = None
    /\ UNCHANGED <<self, config>>

Next ==
    \/ FromJson
    \/ AssignChannels
    \/ Status
    \/ Configure
    \/ Enable
    \/ Disable
    \/ PrintCrateProperties
    \/ PrintOutputNames
    \/ NextCall

Spec == Init /\ [][Next]_vars

\* texts an snmpget process may write, as characters: the replies to a float and
\* to a read-only integer parameter, texts with and without colons and with
\* whitespace around, within and alone, and no text at all
GetReplies ==
    { <<"W", "I", "E", "N", "E", "R", "-", "C", "R", "A", "T", "E", "-", "M", "I", "B",
        ":", ":", "o", "u", "t", "p", "u", "t", "V", "o", "l", "t", "a", "g", "e", ".",
        "u", "2", "0", "0", " ", "=", " ", "F", ":", " ", "1", "8", "0", ".", "0", "0",
        "0", "0", "0", "0", "\n">>,
      <<"W", "I", "E", "N", "E", "R", "-", "C", "R", "A", "T", "E", "-", "M", "I", "B",
        ":", ":", "o", "u", "t", "p", "u", "t", "S", "w", "i", "t", "c", "h", ".", "u",
        "0", " ", "=", " ", "O", "p", "a", "q", "u", "e", ":", " ", "I", "N", "T", "E",
        "G", "E", "R", ":", " ", "1", "\n">>,
      <<"F", ":", " ", "1", ".", "5", " ", "V", "\n">>,
      <<"o", "k">>,
      <<" ", "o", "k", " ", "\n">>,
      <<>>,
      <<"a", ":">>,
      <<"a", ":", " ", "\n">>,
      <<"n", "o", " ", "s", "u", "c", "h", "\t", "n", "a", "m", "e">>,
      <<":", "x">>,
      <<"\n">>,
      <<"x", " ", ":", " ", "y", " ", "z">> }

\* the texts the process of one snmpget may write (a dry run runs none)
GetOutputs == IF self.dry_run THEN {<<>>} ELSE GetReplies

\* object names a caller may ask for
GetNames == {"outputVoltage.u200", "outputSwitch.u0", "psSerialNumber"}

\* self.snmpget_cmd(name, raw = raw), on an object with or without a registry
SnmpGet ==
    /\ pc \in {"new", "loaded"}
    /\ \E name \in GetNames, raw \in BOOLEAN, reply \in GetOutputs, failAt \in 0..1 :
         LET io == snmpget_cmd(self, StartIO(failAt, reply), <<name>>, raw)
         IN  Returned(Call("snmpget_cmd", pystr(name), raw), [io |-> io, val |-> io.ret])

NextGet ==
    \/ SnmpGet
    \/ NextCall

\* the calls of snmpget_cmd alone
SpecGet == Init /\ [][NextGet]_vars

---------------------------------------------------------------------------
(* Reading the trace. *)

\* the requests handed to the transport: processes run, or printed in a dry run
IsCall(e) == e.ev \in {"run", "print_cmd"}

\* the length of the argument vector before the arguments of the request
PrefixLen == IF IsNone(self.mibs_dir) THEN 8 ELSE 10

\* the arguments of a request: the argument vector after the program, the
\* protocol version, the MIBs, the community and the crate's address
CallArgs(e) == SubSeq(e.argv, PrefixLen + 1, Len(e.argv))

IsSet(e) == IsCall(e) /\ e.argv[1] = self.net_snmp_install \o "/bin/snmpset"

IsGet(e) == IsCall(e) /\ e.argv[1] = self.net_snmp_install \o "/bin/snmpget"

\* the objects Configure writes, in the order the specification gives them
ConfigParams ==
    <<"outputSupervisionMinSenseVoltage", "outputSupervisionMaxSenseVoltage",
      "outputVoltage", "outputCurrent", "outputVoltageRiseRate", "outputVoltageFallRate">>

\* e writes the object param of the device channel dev
IsSetOf(e, param, dev) ==
    IsSet(e) /\ Len(CallArgs(e)) >= 1 /\ CallArgs(e)[1] = param \o "." \o dev

IsConfigSet(e, dev) == \E k \in 1..Len(ConfigParams) : IsSetOf(e, ConfigParams[k], dev)

IsSwitchOn(e, dev) == IsSet(e) /\ CallArgs(e) = <<"outputSwitch." \o dev, "i", "1">>

\* a switch-off request for dev, in either layout of its arguments
IsSwitchOff(e, dev) ==
    IsSet(e) /\ \/ CallArgs(e) = <<"outputSwitch." \o dev, "i", "0">>
                \/ CallArgs(e) = <<"outputSwitch." \o dev \o " i 0">>

IsPrefix(s, t) == Len(s) <= Len(t) /\ SubSeq(t, 1, Len(s)) = s

\* the logical names of the channels a selector selects, in registry order
Selected(uchan) ==
    LET chosen == SelectSeq(self.channels,
                            LAMBDA c : IsNone(uchan) \/ c.chan.mpod_name = uchan.val)
    IN  [i \in 1..Len(chosen) |-> chosen[i].name]

\* the channel of a logical name
ChannelOf(name) == (CHOOSE i \in 1..Len(self.channels) : self.channels[i].name = name)

\* the logical names the trace announces with the word given ("configuring ",
\* "enabling ", "disabling "), in order
Announced(word) ==
    LET lines == SelectSeq(trace, LAMBDA e :
                     e.ev = "print" /\ \E i \in 1..Len(self.channels) :
                                          e.argv = <<word \o self.channels[i].name>>)
    IN  [k \in 1..Len(lines) |->
            self.channels[CHOOSE i \in 1..Len(self.channels) :
                              lines[k].argv = <<word \o self.channels[i].name>>].name]

\* the position in the trace of the k-th announcement "configuring <name>"
RECURSIVE NthConfiguring(_, _)
NthConfiguring(k, from) ==
    LET at == CHOOSE i \in from..Len(trace) :
                  /\ trace[i].ev = "print"
                  /\ \E n \in 1..Len(self.channels) :
                        trace[i].argv = <<"configuring " \o self.channels[n].name>>
                  /\ \A j \in from..(i - 1) :
                        ~(trace[j].ev = "print" /\ \E n \in 1..Len(self.channels) :
                              trace[j].argv = <<"configuring " \o self.channels[n].name>>)
    IN  IF k = 1 THEN at ELSE NthConfiguring(k - 1, at + 1)

\* the first position after `from` that announces a channel, or the end of the trace
NextAnnouncement(from) ==
    LET at == {i \in (from + 1)..Len(trace) : trace[i].ev = "print"}
    IN  IF at = {} THEN Len(trace) + 1 ELSE CHOOSE i \in at : \A j \in at : i <= j

\* the part of the trace Configure spends on the k-th channel it announces:
\* what follows "configuring <name>" up to the next announcement
ConfigureSegment(k) ==
    LET at == NthConfiguring(k, 1)
    IN  SubSeq(trace, at + 1, NextAnnouncement(at) - 1)

\* a request as (program, arguments)
Request(e) == <<e.argv[1], CallArgs(e)>>

Requests(t) ==
    LET calls == SelectSeq(t, IsCall)
    IN  [i \in 1..Len(calls) |-> Request(calls[i])]

---------------------------------------------------------------------------
(* What the specification asks of a channel's configuration. *)

SetRequest(args) == <<self.net_snmp_install \o "/bin/snmpset", args>>

GetRequest(args) == <<self.net_snmp_install \o "/bin/snmpget", args>>

\* sense_rails is a pair of bounds
HasRails(c) == c.chan.sense_rails.tag = "tuple" /\ Len(c.chan.sense_rails.items) = 2

\* the rate is a number above 0
RateAbove0(rate) == rate.tag \in {"int", "float"} /\ rate.val > 0

\* the SETs of a channel's configuration, in the order of the specification:
\* supervision min and max, voltage, current limit, rise rate, fall rate
ConfigSets(c) ==
    LET dev == "." \o c.chan.mpod_name
    IN  (IF HasRails(c)
         THEN << <<"outputSupervisionMinSenseVoltage" \o dev, "F", str(c.chan.sense_rails.items[1])>>,
                 <<"outputSupervisionMaxSenseVoltage" \o dev, "F", str(c.chan.sense_rails.items[2])>> >>
         ELSE <<>>)
        \o << <<"outputVoltage" \o dev, "F", str(c.chan.voltage)>>,
              <<"outputCurrent" \o dev, "F", str(c.chan.current)>> >>
        \o (IF RateAbove0(c.chan.rise_rate)
            THEN << <<"outputVoltageRiseRate" \o dev, "F", str(c.chan.rise_rate)>> >> ELSE <<>>)
        \o (IF RateAbove0(c.chan.fall_rate)
            THEN << <<"outputVoltageFallRate" \o dev, "F", str(c.chan.fall_rate)>> >> ELSE <<>>)

\* the requests of a channel's configuration: its SETs, then the read-back
ChannelRequests(c) ==
    [i \in 1..Len(ConfigSets(c)) |-> SetRequest(ConfigSets(c)[i])]
    \o [k \in 1..Len(StatusParams) |-> GetRequest(<<StatusParams[k] \o "." \o c.chan.mpod_name>>)]

---------------------------------------------------------------------------
(* The claims. *)

\* C1: in the trace of enable(sel), no switch-on SET of a device channel
\* precedes a Configure SET of that device channel, and before the switch-on
\* SET every Configure SET of every channel on that device has been issued.
C1_EnableSwitchesAfterConfigure ==
    command.name = "enable" =>
        \A i \in 1..Len(trace), d \in DeviceNames :
            IsSwitchOn(trace[i], d) =>
                /\ \A j \in 1..Len(trace) : IsConfigSet(trace[j], d) => j < i
                /\ \A n \in 1..Len(self.channels) :
                      self.channels[n].chan.mpod_name = d =>
                          \A k \in 1..Len(ConfigSets(self.channels[n])) :
                              \E j \in 1..(i - 1) :
                                  /\ IsSet(trace[j])
                                  /\ CallArgs(trace[j]) = ConfigSets(self.channels[n])[k]

\* an enable that ran to its end on two channels, one with bounds and rates
C1_Witness ==
    /\ command.name = "enable" /\ raised = "none"
    /\ Len(self.channels) = 2
    /\ \E i, j \in 1..Len(trace) :
          /\ IsSwitchOn(trace[i], "u0") /\ IsSetOf(trace[j], "outputVoltageFallRate", "u0")
    /\ \E i \in 1..Len(trace) : IsSwitchOn(trace[i], "u1")

\* C2: for every selector, disable switches the selected channels off in the
\* reverse of the order in which configure and enable visit them: registry
\* order for configure and enable, and the reverse for disable; a command that
\* a failure ends has visited a prefix of its order.
C2_DisableReversesEnable ==
    /\ command.name = "disable" =>
          /\ IsPrefix(Announced("disabling "), Reverse(Selected(command.arg)))
          /\ raised = "none" => Announced("disabling ") = Reverse(Selected(command.arg))
          /\ Len(SelectSeq(trace, IsCall)) = Len(Announced("disabling "))
          /\ \A i \in 1..Len(trace) :
                trace[i].ev = "print" =>
                    /\ i < Len(trace)
                    /\ \E n \in 1..Len(self.channels) :
                          /\ trace[i].argv = <<"disabling " \o self.channels[n].name>>
                          /\ IsSwitchOff(trace[i + 1], self.channels[n].chan.mpod_name)
    /\ command.name \in {"configure", "enable"} =>
          /\ IsPrefix(Announced("configuring "), Selected(command.arg))
          /\ raised = "none" => Announced("configuring ") = Selected(command.arg)
    /\ command.name = "enable" =>
          /\ IsPrefix(Announced("enabling "), Selected(command.arg))
          /\ raised = "none" => Announced("enabling ") = Selected(command.arg)

\* a disable of two channels on one device that ran to its end
C2_Witness ==
    /\ command.name = "disable" /\ raised = "none"
    /\ ~IsNone(command.arg)
    /\ Announced("disabling ") = <<"B", "A">>

\* C3: what configure does for a channel is, in this order: the supervision
\* minimum and maximum when sense_rails is set, the voltage, the current limit,
\* the rise rate when above 0, the fall rate when above 0, then the GETs of the
\* read-back; a channel a failure interrupts has a prefix of it.
C3_ConfigureOrder ==
    command.name \in {"configure", "enable"} =>
        \A k \in 1..Len(Announced("configuring ")) :
            LET c    == self.channels[ChannelOf(Announced("configuring ")[k])]
                got  == Requests(ConfigureSegment(k))
            IN  /\ IsPrefix(got, ChannelRequests(c))
                /\ (raised = "none" \/ k < Len(Announced("configuring ")))
                      => got = ChannelRequests(c)

\* a configure that ran to its end on a channel with bounds and both rates
C3_Witness ==
    /\ command.name = "configure" /\ raised = "none"
    /\ \E k \in 1..Len(Announced("configuring ")) :
          /\ Len(Requests(ConfigureSegment(k))) = 6 + Len(StatusParams)
          /\ Requests(ConfigureSegment(k))[1][2][1] = "outputSupervisionMinSenseVoltage.u0"
          /\ Requests(ConfigureSegment(k))[3][2] = <<"outputVoltage.u0", "F", "5.5">>

\* the registry of the specification's end-to-end example: A on u0 and B on u1,
\* 5.5 V and 2.0 A each, nothing else given, loaded by from_json
SpecExample ==
    /\ config.by = "from_json"
    /\ config.doc = << [name |-> "A", chan |-> ChanDef("u0", float(55), float(20), Absent, Absent, Absent)],
                       [name |-> "B", chan |-> ChanDef("u1", float(55), float(20), Absent, Absent, Absent)] >>

\* the arguments of the SETs of the trace, in order
SetArgs ==
    LET sets == SelectSeq(trace, IsSet)
    IN  [i \in 1..Len(sets) |-> CallArgs(sets[i])]

\* disable() of the example switches B off, then A
ExampleDisable ==
    (SpecExample /\ command = Call("disable", None, FALSE) /\ raised = "none") =>
        LET sets == SelectSeq(trace, IsSet)
        IN  Len(sets) = 2 /\ IsSwitchOff(sets[1], "u1") /\ IsSwitchOff(sets[2], "u0")

\* C4 as claimed: enable() of the example writes A's voltage, current and
\* switch-on before anything of B; disable() switches B off, then A.
C4_Original ==
    /\ (SpecExample /\ command = Call("enable", None, FALSE) /\ raised = "none") =>
          SetArgs = << <<"outputVoltage.u0", "F", "5.5">>, <<"outputCurrent.u0", "F", "2.0">>,
                       <<"outputSwitch.u0", "i", "1">>,
                       <<"outputVoltage.u1", "F", "5.5">>, <<"outputCurrent.u1", "F", "2.0">>,
                       <<"outputSwitch.u1", "i", "1">> >>
    /\ ExampleDisable

\* C4, amended: enable() of the example configures A (voltage, current,
\* read-back), then configures B, and only then switches A on and B on;
\* disable() switches B off, then A.
C4_EnableConfiguresAllThenSwitches ==
    /\ (SpecExample /\ command = Call("enable", None, FALSE) /\ raised = "none") =>
          /\ SetArgs = << <<"outputVoltage.u0", "F", "5.5">>, <<"outputCurrent.u0", "F", "2.0">>,
                          <<"outputVoltage.u1", "F", "5.5">>, <<"outputCurrent.u1", "F", "2.0">>,
                          <<"outputSwitch.u0", "i", "1">>, <<"outputSwitch.u1", "i", "1">> >>
          /\ Requests(trace) =
                ChannelRequests(self.channels[1]) \o ChannelRequests(self.channels[2])
                \o << SetRequest(<<"outputSwitch.u0", "i", "1">>),
                      SetRequest(<<"outputSwitch.u1", "i", "1">>) >>
    /\ ExampleDisable

\* enable() of the example has run to its end
C4_Witness ==
    /\ SpecExample /\ command = Call("enable", None, FALSE) /\ raised = "none"
    /\ Len(SetArgs) = 6

\* the run of the last command in which no process fails
FailureFree(reply) ==
    IF command.name = "configure" THEN configure(self, StartIO(0, reply), command.arg).io.trace
    ELSE IF command.name = "enable" THEN enable(self, StartIO(0, reply), command.arg).io.trace
    ELSE disable(self, StartIO(0, reply), command.arg).io.trace

\* C5 as claimed: when a SET of configure fails, the channels later in
\* registry order are still configured.
C5_Original ==
    (/\ command.name = "configure" /\ raised = "CalledProcessError"
     /\ IsSet(trace[Len(trace)])) =>
        Announced("configuring ") = Selected(command.arg)

\* C5, amended: when a process of configure fails, it is the last thing
\* configure does: the remaining steps of that channel are not issued, nothing
\* is written again to undo the SETs already applied, and the channels later in
\* registry order are not configured; what was issued is the failure-free run
\* up to the failed request.
C5_FailureEndsConfigure ==
    (command.name = "configure" /\ raised = "CalledProcessError") =>
        /\ trace # <<>>
        /\ trace[Len(trace)].ev = "run" /\ trace[Len(trace)].rc # 0
        /\ \A i \in 1..(Len(trace) - 1) : trace[i].rc = 0
        /\ IsPrefix(Requests(trace), Requests(FailureFree(<<>>)))
        /\ IsPrefix(Announced("configuring "), Selected(command.arg))

\* a SET of the first of two selected channels failed after another SET of it
\* had been applied
C5_Witness ==
    /\ command.name = "configure" /\ raised = "CalledProcessError"
    /\ Len(Selected(command.arg)) = 2
    /\ Announced("configuring ") = <<"A">>
    /\ IsSet(trace[Len(trace)])
    /\ Len(SelectSeq(trace, IsSet)) >= 2

\* the value is not there, or not above 0
NotAbove0(v) == v.tag \in {"absent", "None"} \/ (v.tag \in {"int", "float"} /\ v.val <= 0)

\* C6 as claimed: configure writes no rise rate for a channel whose rise_rate
\* is not given, None or <= 0, and no fall rate for one whose fall_rate is.
C6_NoRateSetWhenAbsent ==
    command.name \in {"configure", "enable"} =>
        \A k \in 1..Len(Announced("configuring ")) :
            LET n     == ChannelOf(Announced("configuring ")[k])
                given == config.doc[n].chan
                seg   == ConfigureSegment(k)
            IN  /\ NotAbove0(given.rise_rate) =>
                      \A i \in 1..Len(seg) :
                          ~IsSetOf(seg[i], "outputVoltageRiseRate", given.mpod_name)
                /\ NotAbove0(given.fall_rate) =>
                      \A i \in 1..Len(seg) :
                          ~IsSetOf(seg[i], "outputVoltageFallRate", given.mpod_name)

\* C7 as claimed: every SET gives the transport the object name, the type tag
\* and the value as three arguments: "F" for the objects configure writes, "i"
\* for outputSwitch, with value 1 from enable and 0 from disable.
C7_SetsPassThreeArguments ==
    \A i \in 1..Len(trace) :
        IsSet(trace[i]) =>
            LET a == CallArgs(trace[i])
            IN  /\ Len(a) = 3
                /\ \/ /\ a[2] = "F"
                      /\ \E d \in DeviceNames : IsConfigSet(trace[i], d)
                   \/ /\ a[2] = "i"
                      /\ \E d \in DeviceNames : a[1] = "outputSwitch." \o d
                      /\ a[3] = IF command.name = "enable" THEN "1" ELSE "0"
                      /\ command.name \in {"enable", "disable"}

\* the device channel a request names, for the requests that name dev
Names(e, dev) ==
    /\ Len(CallArgs(e)) >= 1
    /\ \/ IsSwitchOff(e, dev) \/ IsSwitchOn(e, dev) \/ IsConfigSet(e, dev)
       \/ \E k \in 1..Len(StatusParams) : CallArgs(e) = <<StatusParams[k] \o "." \o dev>>

\* C8 as claimed: status, configure, enable and disable, given the device
\* identifier of a configured channel, raise nothing of their own and keep to
\* the channels on that device; without a selector configure and enable take
\* the channels in registry order and disable in the reverse order.
C8_DeviceSelector ==
    (config.by = "from_json"
     /\ command.name \in {"status", "configure", "enable", "disable"}) =>
        /\ (/\ command.arg.tag = "str"
            /\ \E n \in 1..Len(self.channels) :
                  self.channels[n].chan.mpod_name = command.arg.val) =>
              /\ raised \in {"none", "CalledProcessError"}
              /\ \A i \in 1..Len(trace) :
                    IsCall(trace[i]) => Names(trace[i], command.arg.val)
        /\ (IsNone(command.arg) /\ raised = "none") =>
              /\ command.name \in {"configure", "enable"} =>
                    Announced("configuring ") = Selected(None)
              /\ command.name = "enable" => Announced("enabling ") = Selected(None)
              /\ command.name = "disable" => Announced("disabling ") = Reverse(Selected(None))

\* the argument vectors of the events of one kind, in order
Argvs(t, ev) ==
    LET es == SelectSeq(t, LAMBDA e : e.ev = ev)
    IN  [i \in 1..Len(es) |-> es[i].argv]

\* C9: a dry run of enable runs no process, and the commands it prints are,
\* one for one and in order, the commands the same enable runs when it is not a
\* dry run and no process fails (and then it prints none).
C9_DryRunMatchesReal ==
    command.name = "enable" =>
        LET twin == enable([self EXCEPT !.dry_run = ~self.dry_run], StartIO(0, <<>>),
                           command.arg).io.trace
        IN  IF self.dry_run
            THEN /\ Argvs(trace, "run") = <<>>
                 /\ Argvs(trace, "print_cmd") = Argvs(twin, "run")
            ELSE raised # "CalledProcessError" =>
                 /\ Argvs(trace, "print_cmd") = <<>>
                 /\ Argvs(trace, "run") = Argvs(twin, "print_cmd")

\* a dry run of enable on two channels that printed their commands
C9_Witness ==
    /\ command.name = "enable" /\ self.dry_run /\ raised = "none"
    /\ Len(self.channels) = 2
    /\ Len(Argvs(trace, "print_cmd")) >= 2 * (2 + Len(StatusParams)) + 2

\* a number as tenths
Tenths(v) == IF v.tag = "int" THEN 10 * v.val ELSE v.val

\* the definition gives sense_rails a lower bound above the upper bound
InvertedRails(chan) ==
    /\ chan.sense_rails.tag = "tuple"
    /\ Len(chan.sense_rails.items) = 2
    /\ Tenths(chan.sense_rails.items[1]) > Tenths(chan.sense_rails.items[2])

\* C10 as claimed: building a registry from a definition whose sense_rails
\* lower bound is above the upper bound fails, and no request is made of the
\* device.
C10_InvertedRailsRejected ==
    (\E i \in 1..Len(config.doc) : InvertedRails(config.doc[i].chan)) =>
        /\ pc = "failed"
        /\ raised # "none"
        /\ \A i \in 1..Len(trace) : ~IsCall(trace[i])

---------------------------------------------------------------------------
(* The snapshot of Status. *)

\* the parameter keys of a channel's snapshot, in the order of the specification
SnapshotKeys ==
    <<"outputSwitch", "outputVoltage", "outputCurrent",
      "outputSupervisionMinSenseVoltage", "outputSupervisionMaxSenseVoltage",
      "outputVoltageRiseRate", "outputVoltageFallRate",
      "outputMeasurementTerminalVoltage", "outputMeasurementCurrent">>

\* the keys of a mapping, in its order
Keys(m) == [i \in 1..Len(m) |-> m[i].key]

\* the GET of the k-th parameter of the i-th channel of the registry
StatusGet(i, k) == GetRequest(<<SnapshotKeys[k] \o "." \o self.channels[i].chan.mpod_name>>)

\* C11: a Status with no selector that returns, returns a snapshot whose keys
\* are the logical names of the registry, each mapped to the nine parameter
\* keys, and has issued one GET per channel and parameter, channel by channel
\* in that parameter order, each addressed to the channel's device identifier.
C11_StatusSnapshot ==
    (command.name = "status" /\ IsNone(command.arg) /\ raised = "none") =>
        /\ Keys(returned) = [i \in 1..Len(self.channels) |-> self.channels[i].name]
        /\ \A i \in 1..Len(returned) : Keys(returned[i].value) = SnapshotKeys
        /\ Len(Requests(trace)) = 9 * Len(self.channels)
        /\ \A i \in 1..Len(self.channels) : \A k \in 1..9 :
              Requests(trace)[9 * (i - 1) + k] = StatusGet(i, k)

\* a Status with no selector has returned the snapshot of two channels on
\* different devices
C11_Witness ==
    /\ command.name = "status" /\ IsNone(command.arg) /\ raised = "none"
    /\ Len(self.channels) = 2
    /\ self.channels[1].chan.mpod_name # self.channels[2].chan.mpod_name
    /\ Len(returned) = 2
    /\ Len(Requests(trace)) = 18

---------------------------------------------------------------------------
(* The normalization of a GET reply. *)

\* the reply texts of the specification's examples and their values
FloatReply ==
    <<"W", "I", "E", "N", "E", "R", "-", "C", "R", "A", "T", "E", "-", "M", "I", "B",
      ":", ":", "o", "u", "t", "p", "u", "t", "V", "o", "l", "t", "a", "g", "e", ".",
      "u", "2", "0", "0", " ", "=", " ", "F", ":", " ", "1", "8", "0", ".", "0", "0",
      "0", "0", "0", "0">>

FloatValue == <<"1", "8", "0", ".", "0", "0", "0", "0", "0", "0">>

OpaqueReply ==
    <<"W", "I", "E", "N", "E", "R", "-", "C", "R", "A", "T", "E", "-", "M", "I", "B",
      ":", ":", "o", "u", "t", "p", "u", "t", "S", "w", "i", "t", "c", "h", ".", "u",
      "0", " ", "=", " ", "O", "p", "a", "q", "u", "e", ":", " ", "I", "N", "T", "E",
      "G", "E", "R", ":", " ", "1">>

OpaqueValue == <<"1">>

HasColon(t) == \E i \in 1..Len(t) : t[i] = ":"

\* r is what follows the last colon of t (all of t when it has none)
IsAfterLastColon(r, t) ==
    \E n \in 0..Len(t) :
        /\ r = SubSeq(t, n + 1, Len(t))
        /\ ~HasColon(r)
        /\ n = 0 \/ t[n] = ":"

\* v is r without the whitespace around it
IsWithoutSurroundingWhitespace(v, r) ==
    \E a \in 0..Len(r), b \in 0..Len(r) :
        /\ a + b <= Len(r)
        /\ v = SubSeq(r, a + 1, Len(r) - b)
        /\ \A i \in 1..a : r[i] \in Whitespace
        /\ \A i \in (Len(r) - b + 1)..Len(r) : r[i] \in Whitespace
        /\ v # <<>> => (v[1] \notin Whitespace /\ v[Len(v)] \notin Whitespace)

\* the text the transport returned to the last snmpget_cmd
GetReply == trace[Len(trace)].val

\* the transport has returned a text to a call of snmpget_cmd
Replied == command.name = "snmpget_cmd" /\ trace # <<>> /\ trace[Len(trace)].rc = 0

\* C12: when the transport returns a reply text to a GET, the GET does not fail;
\* without raw it returns what follows the last colon of the reply, without the
\* whitespace around it ("180.000000" and "1" for the two replies of the
\* specification), and the reply itself when the reply has no colon; with raw
\* it returns the reply as the transport returned it.
C12_Normalization ==
    Replied =>
        /\ raised = "none"
        /\ command.raw => returned = GetReply
        /\ ~command.raw =>
              /\ \E n \in 0..Len(GetReply) :
                    /\ IsAfterLastColon(SubSeq(GetReply, n + 1, Len(GetReply)), GetReply)
                    /\ IsWithoutSurroundingWhitespace(
                           returned, SubSeq(GetReply, n + 1, Len(GetReply)))
              /\ ~HasColon(GetReply) => returned = GetReply
              /\ GetReply = FloatReply => returned = FloatValue
              /\ GetReply = OpaqueReply => returned = OpaqueValue

\* a GET without raw has normalized the reply to a read-only integer parameter
C12_Witness ==
    /\ Replied /\ ~command.raw /\ raised = "none"
    /\ ~self.dry_run
    /\ GetReply = OpaqueReply
    /\ returned = OpaqueValue

---------------------------------------------------------------------------
(* A failure in the Configure phase of Enable. *)

\* the i-th event is a device operation of Configure that failed: a SET of a
\* configuration parameter or a GET of the read-back
ConfigureFailedAt(i) ==
    /\ trace[i].ev = "run" /\ trace[i].rc # 0
    /\ \/ IsGet(trace[i])
       \/ \E dev \in DeviceNames : IsConfigSet(trace[i], dev)

\* C13: when a device operation of the Configure phase of Enable fails (a
\* Configure SET or a read-back GET, of any selected channel), Enable ends with
\* that failure: the failed operation is the last thing it did, so it is not
\* tried again and no device operation follows it, and Enable has issued no
\* outputSwitch=1 SET for any channel.
C13_NoSwitchOnAfterFailedConfigure ==
    command.name = "enable" =>
        \A i \in 1..Len(trace) :
            ConfigureFailedAt(i) =>
                /\ i = Len(trace)
                /\ raised = "CalledProcessError"
                /\ \A j \in 1..Len(trace) : \A dev \in DeviceNames :
                      ~IsSwitchOn(trace[j], dev)
                /\ \A j \in 1..Len(trace) :
                      IsSet(trace[j]) => Len(CallArgs(trace[j])) >= 1
                                         /\ \A dev \in DeviceNames :
                                               ~IsSetOf(trace[j], "outputSwitch", dev)

\* an Enable of two channels has ended with the failure of the read-back GET
\* of the second, the first being configured
C13_Witness ==
    /\ command.name = "enable" /\ raised = "CalledProcessError"
    /\ Len(Selected(command.arg)) = 2
    /\ Announced("configuring ") = Selected(command.arg)
    /\ ConfigureFailedAt(Len(trace)) /\ IsGet(trace[Len(trace)])

---------------------------------------------------------------------------
(* Who writes a channel's switch. *)

\* e is a SET of the switch of some channel, whatever it writes
IsSwitchSet(e) ==
    IsSet(e) /\ \E dev \in DeviceNames :
                   \/ IsSwitchOn(e, dev)
                   \/ IsSwitchOff(e, dev)
                   \/ IsSetOf(e, "outputSwitch", dev)

\* the device operations of the command, in order
Calls == SelectSeq(trace, IsCall)

\* the registry as the configuration built it
BuiltChannels ==
    IF config.by = "from_json" THEN from_json_channels(config.doc)
    ELSE direct_channels(config.doc)

\* C14: whatever commands came before, Configure, Status and CrateProperties
\* issue no outputSwitch SET, every outputSwitch SET of Enable writes on and
\* every one of Disable writes off; Disable issues one switch-off SET per
\* selected channel (up to a failing one) and no other device operation; and
\* no command keeps a switch state: the object is as the configuration built
\* it, and what an Enable or a Disable that returns has asked of the device is
\* the same whatever the device replied.
C14_SwitchWrittenByEnableAndDisableOnly ==
    pc = "returned" =>
        /\ command.name \in {"configure", "status", "print_crate_properties"} =>
              \A i \in 1..Len(trace) : ~IsSwitchSet(trace[i])
        /\ command.name = "enable" =>
              \A i \in 1..Len(trace) :
                  IsSwitchSet(trace[i]) => \E dev \in DeviceNames : IsSwitchOn(trace[i], dev)
        /\ command.name = "disable" =>
              LET chosen == Reverse(Selected(command.arg))
                  calls  == Calls
              IN  /\ Len(calls) <= Len(chosen)
                  /\ raised = "none" => Len(calls) = Len(chosen)
                  /\ \A k \in 1..Len(calls) :
                        IsSwitchOff(calls[k], self.channels[ChannelOf(chosen[k])].chan.mpod_name)
        /\ self.channels = BuiltChannels
        /\ DOMAIN self = {"ip_address_crate", "net_snmp_install", "mibs_dir",
                          "module_type", "dry_run", "voltage_range", "channels"}
        /\ (command.name \in {"enable", "disable"} /\ raised = "none") =>
              \A reply \in Replies : Requests(trace) = Requests(FailureFree(reply))

\* a Disable of two channels has returned, having issued two device operations
C14_Witness ==
    /\ pc = "returned" /\ command.name = "disable" /\ raised = "none"
    /\ Len(Selected(command.arg)) = 2
    /\ Len(Calls) = 2

====
